---- MODULE Spec2Model ----
(***************************************************************************)
(* The simulation of the OpenGL snake game of src/main.cpp: the frame loop *)
(* of main (processInput, the timed tick, the game-over exit), the input   *)
(* mapper processInput and the food spawner spawnFood.                     *)
(*                                                                         *)
(* Numbers.  Every coordinate the program computes is a multiple of 0.5    *)
(* (the start position, sums of MOVE_STRIDE = 2.5, integer food            *)
(* positions), all far below 2^24, so the float arithmetic is exact and a  *)
(* length l is held here as the integer l * Scale.  glm::distance(a,b) < d *)
(* is decided on the squares, Dist2(a,b) < d*d, which agrees with the      *)
(* correctly rounded float square root on these values.                    *)
(*                                                                         *)
(* Times (GAME_SPEED, glfwGetTime, lastMoveTime) are floats in seconds and *)
(* are held here as integers in units of 2^-31 s.  Every float GAME_SPEED  *)
(* takes that is not below 2^-8 s is a multiple of that unit, and          *)
(* "GAME_SPEED -= 0.005" is computed as the float computes it: the exact   *)
(* difference rounded to the float grid of its binade (FloatSub).  Below   *)
(* 2^-8 s, which only the last value of a chain of SPACE presses reaches,  *)
(* the value is held to the nearest unit.  The clock glfwGetTime is a     *)
(* double (glfwTime, exact here); the frame casts it to float and takes    *)
(* the float difference to lastMoveTime (FloatRound).                      *)
(*                                                                         *)
(* The tick reads the head through "Square& head = snake[0]".  The         *)
(* push_back of the small-food block may reallocate the vector, after      *)
(* which the big-food block reads a dangling reference: undefined          *)
(* behaviour, held here as a choice between the outcomes (HeadCloser).     *)
(***************************************************************************)
EXTENDS Integers, Sequences, FiniteSets, TLC

---------------------------------------------------------------------------
(* Program constants *)

Scale == 2

windowWIDTH    == 800 * Scale
windowHEIGHT   == 600 * Scale
SQUARE_SIZE    == 20 * Scale
WALL_THICKNESS == 60 * Scale
MOVE_STRIDE    == (5 * Scale) \div 2

\* "head.position.y < 0 + WALL_THICKNESS - 17.0": the bottom wall's offset
BOTTOM_SHIFT == 17 * Scale

\* "WALL_THICKNESS + 40.0" of spawnFood
SPAWN_INSET == 40 * Scale

\* the segments appended for a small and for a big food, and their scores
SMALL_GROWTH == 25
BIG_GROWTH   == 75
SMALL_SCORE  == 1
BIG_SCORE    == 2
BIG_FOOD_EVERY == 3

\* one millisecond in units of 2^-31 s (2^31 / 1000, rounded)
Millisecond == 2147484

\* float GAME_SPEED = 0.012f, in units of 2^-31 s (exact)
game_speed_controller == 25769804
\* the double 0.005 of "GAME_SPEED -= 0.005" is SPACE_STEP + 0.24 units
SPACE_STEP  == 10737418
\* the double 0.003 of "GAME_SPEED > 0.003" is SPACE_FLOOR + 0.944 units, so
\* an integer number of units exceeds it iff it exceeds SPACE_FLOOR
SPACE_FLOOR == 6442450
\* "GAME_SPEED = 0.5"
CTRL_SPEED  == 2 ^ 30

Direction == {"UP", "DOWN", "LEFT", "RIGHT"}

KEY_UP           == "KEY_UP"
KEY_DOWN         == "KEY_DOWN"
KEY_LEFT         == "KEY_LEFT"
KEY_RIGHT        == "KEY_RIGHT"
KEY_SPACE        == "KEY_SPACE"
KEY_LEFT_CONTROL == "KEY_LEFT_CONTROL"

ArrowKeys == {KEY_UP, KEY_DOWN, KEY_LEFT, KEY_RIGHT}
SpeedKeys == {KEY_SPACE, KEY_LEFT_CONTROL}

---------------------------------------------------------------------------
(* Bounds of the model *)

\* the clock (glfwGetTime), in ms, up to which frames are explored
MaxTime == 75

\* the number of arrow keys held down together in one frame
MaxKeysDown == 2

\* the time a frame may take: one too short to be measured, and 15 ms,
\* longer than the tick interval
FrameDurations == {0, 15 * Millisecond}

\* the key states glfwGetKey reports in one frame (the set of keys held
\* down) while only the arrow keys are played
KeyStates == {k \in SUBSET ArrowKeys : Cardinality(k) <= MaxKeysDown}

\* the key states while only the speed controls are played
SpeedKeyStates == SUBSET SpeedKeys

\* the values rand() yields for the x and for the y coordinate of a sample
RandX == {320, 323, 325, 330, 350}
RandY == {200, 205}

\* one more pair of values of rand(): a sample below and left of the start
RandFar == <<277, 172>>

\* the first pair of values rand() yields in glibc when, as here, srand is
\* never called: the first food of such a build lies at (338, 139)
RandFirst == <<238, 39>>

\* the time a frame of SpecSteady takes: 25/2048 s, the shortest multiple
\* of 2^-11 s that is not below the baseline tick interval; every clock
\* value it leads to is a float
SteadyFrame == 25 * 2 ^ 20

\* how many steps of MOVE_STRIDE from a wall the snake of SpecWall starts
WallMargin == 2

\* how many steps of MOVE_STRIDE the grid of start positions spans either
\* side of the centre: enough to pass every wall
GridReach == 150

\* the key states with at most one arrow key held down
SingleKeyStates == {k \in KeyStates : Cardinality(k) <= 1}

---------------------------------------------------------------------------
(* State *)

VARIABLES
    GAME_SPEED,         \* the tick interval
    score,
    bigFoodOnScreen,
    smallFoodOnScreen,
    smallFoodEaten,
    lastMoveTime,       \* the clock value of the last tick
    gameOver,
    snake,              \* sequence of Square, head first
    smallFood,          \* position of the small food
    bigFood,            \* position of the big food
    currentDirection,
    nextDirection,
    spacePressed,       \* processInput's static flags
    ctrlPressed,
    currentTime,        \* glfwGetTime() as the last frame held it, a float
    glfwTime,           \* the clock glfwGetTime() reads, a double
    pc                  \* "loop": in the rendering loop, "exit": left it

vars == <<GAME_SPEED, score, bigFoodOnScreen, smallFoodOnScreen, smallFoodEaten,
          lastMoveTime, gameOver, snake, smallFood, bigFood, currentDirection,
          nextDirection, spacePressed, ctrlPressed, currentTime, glfwTime, pc>>

---------------------------------------------------------------------------
(* Geometry *)

Square(p, d) == [position |-> p, direction |-> d]

\* the square of glm::distance(a, b)
Dist2(a, b) == (a[1] - b[1]) * (a[1] - b[1]) + (a[2] - b[2]) * (a[2] - b[2])

\* glm::distance(a, b) < d
Closer(a, b, d) == Dist2(a, b) < d * d

---------------------------------------------------------------------------
(* spawnFood *)

\* newX, newY of one sample, from the two values of rand()
SampleX(r) == (WALL_THICKNESS + SPAWN_INSET)
              + ((r % ((windowWIDTH \div Scale)
                       - 2 * ((WALL_THICKNESS + 2 * SQUARE_SIZE) \div Scale) + 1)) * Scale)
SampleY(r) == (WALL_THICKNESS + SPAWN_INSET)
              + ((r % ((windowHEIGHT \div Scale)
                       - 2 * ((WALL_THICKNESS + 2 * SQUARE_SIZE) \div Scale) + 1)) * Scale)

\* the candidate positions the retry loop can draw
SamplePoints ==
    {<<SampleX(rx), SampleY(ry)>> : rx \in RandX, ry \in RandY}
        \cup {<<SampleX(RandFar[1]), SampleY(RandFar[2])>>,
              <<SampleX(RandFirst[1]), SampleY(RandFirst[2])>>}

\* validPosition with half the separation
validPositionHalfSize(snk, newPosition) ==
    \A i \in 1..Len(snk) :
        ~Closer(snk[i].position, newPosition, SQUARE_SIZE \div 2)

\* validPosition after the loop over the segments
validPosition(snk, newPosition) ==
    \A i \in 1..Len(snk) : ~Closer(snk[i].position, newPosition, SQUARE_SIZE)

\* the positions the do-while loop can leave with: it resamples until
\* validPosition holds, so it returns a valid sample or does not return
spawnFood(snk) == {p \in SamplePoints : validPosition(snk, p)}

---------------------------------------------------------------------------
(* processInput *)

\* the spacing of the floats around n units, for 0 <= n < 2^30 (24
\* significant bits), and never less than one unit
FloatSpacing(n) ==
    IF n >= 2 ^ 29 THEN 64
    ELSE IF n >= 2 ^ 28 THEN 32
    ELSE IF n >= 2 ^ 27 THEN 16
    ELSE IF n >= 2 ^ 26 THEN 8
    ELSE IF n >= 2 ^ 25 THEN 4
    ELSE IF n >= 2 ^ 24 THEN 2
    ELSE 1

\* the float (float)(g - 0.005): the exact difference is n - 0.24 with
\* n = g - SPACE_STEP, rounded to the nearest float; being just below n, a
\* difference halfway between two floats rounds down
FloatSub(g) ==
    LET n == g - SPACE_STEP
        s == FloatSpacing(n)
        r == n % s
    IN  IF 2 * r <= s THEN n - r ELSE n - r + s

\* static_cast<float>(n), for 0 <= n < 2^30: n rounded to the nearest float,
\* a tie to the float with the even mantissa
FloatRound(n) ==
    LET s    == FloatSpacing(n)
        r    == n % s
        down == n - r
    IN  IF 2 * r < s THEN down
        ELSE IF 2 * r > s THEN down + s
        ELSE IF (down \div s) % 2 = 0 THEN down
        ELSE down + s

\* a SPACE block whose release restores the baseline whatever ctrlPressed is
SpaceInputRestoresAlways(keys, s) ==
    IF KEY_SPACE \in keys /\ ~s.spacePressed
    THEN [s EXCEPT !.spacePressed = TRUE,
                   !.GAME_SPEED = IF s.GAME_SPEED > SPACE_FLOOR
                                  THEN FloatSub(s.GAME_SPEED)
                                  ELSE s.GAME_SPEED]
    ELSE IF KEY_SPACE \notin keys
    THEN [s EXCEPT !.spacePressed = FALSE,
                   !.GAME_SPEED = game_speed_controller]
    ELSE s

\* the SPACE block: s = [GAME_SPEED, spacePressed, ctrlPressed]
SpaceInput(keys, s) ==
    IF KEY_SPACE \in keys /\ ~s.spacePressed
    THEN [s EXCEPT !.spacePressed = TRUE,
                   !.GAME_SPEED = IF s.GAME_SPEED > SPACE_FLOOR
                                  THEN FloatSub(s.GAME_SPEED)
                                  ELSE s.GAME_SPEED]
    ELSE IF KEY_SPACE \notin keys
    THEN [s EXCEPT !.spacePressed = FALSE,
                   !.GAME_SPEED = IF ~s.ctrlPressed
                                  THEN game_speed_controller
                                  ELSE s.GAME_SPEED]
    ELSE s

\* the LEFT CONTROL block
CtrlInput(keys, s) ==
    IF KEY_LEFT_CONTROL \in keys /\ ~s.ctrlPressed
    THEN [s EXCEPT !.ctrlPressed = TRUE, !.GAME_SPEED = CTRL_SPEED]
    ELSE IF KEY_LEFT_CONTROL \notin keys
    THEN [s EXCEPT !.ctrlPressed = FALSE,
                   !.GAME_SPEED = IF ~s.spacePressed
                                  THEN game_speed_controller
                                  ELSE s.GAME_SPEED]
    ELSE s

\* the else-if chain with the reverse tested against the pending direction
DirectionInputAgainstNext(keys, cur, next) ==
    IF KEY_UP \in keys /\ next # "DOWN" THEN "UP"
    ELSE IF KEY_DOWN \in keys /\ next # "UP" THEN "DOWN"
    ELSE IF KEY_LEFT \in keys /\ next # "RIGHT" THEN "LEFT"
    ELSE IF KEY_RIGHT \in keys /\ next # "LEFT" THEN "RIGHT"
    ELSE next

\* the arrow keys: the value of nextDirection after the else-if chain
DirectionInput(keys, cur, next) ==
    IF KEY_UP \in keys /\ cur # "DOWN" THEN "UP"
    ELSE IF KEY_DOWN \in keys /\ cur # "UP" THEN "DOWN"
    ELSE IF KEY_LEFT \in keys /\ cur # "RIGHT" THEN "LEFT"
    ELSE IF KEY_RIGHT \in keys /\ cur # "LEFT" THEN "RIGHT"
    ELSE next

\* processInput as a whole: the speed state after it
processInput(keys) ==
    CtrlInput(keys, SpaceInput(keys,
        [GAME_SPEED |-> GAME_SPEED, spacePressed |-> spacePressed,
         ctrlPressed |-> ctrlPressed]))

---------------------------------------------------------------------------
(* The tick of main *)

\* the head after its move by MOVE_STRIDE
MoveHead(p, d) ==
    CASE d = "UP"    -> <<p[1], p[2] + MOVE_STRIDE>>
      [] d = "DOWN"  -> <<p[1], p[2] - MOVE_STRIDE>>
      [] d = "LEFT"  -> <<p[1] - MOVE_STRIDE, p[2]>>
      [] d = "RIGHT" -> <<p[1] + MOVE_STRIDE, p[2]>>

\* every segment takes its predecessor's place, then the head moves
Advance(snk, d) ==
    [i \in 1..Len(snk) |->
        IF i = 1 THEN Square(MoveHead(snk[1].position, d), d) ELSE snk[i - 1]]

\* the wall check on the head
WallHit(p) ==
    \/ p[1] < 0 + WALL_THICKNESS
    \/ p[1] >= windowWIDTH - WALL_THICKNESS
    \/ p[2] < 0 + WALL_THICKNESS - BOTTOM_SHIFT
    \/ p[2] >= windowHEIGHT - WALL_THICKNESS

\* a self-collision loop that tests "<=" where the code tests "<"
SelfHitInclusive(snk) ==
    \E i \in 2..Len(snk) :
        Dist2(snk[1].position, snk[i].position) <= MOVE_STRIDE * MOVE_STRIDE

\* the self-collision loop
SelfHit(snk) ==
    \E i \in 2..Len(snk) : Closer(snk[1].position, snk[i].position, MOVE_STRIDE)

\* a growth loop that runs once too few
GrowOneLess(snk, n) == snk \o [i \in 1..(n - 1) |-> snk[Len(snk)]]

\* n times push_back(snake.back())
Grow(snk, n) == snk \o [i \in 1..n |-> snk[Len(snk)]]

\* the small-food block: the game states g it can leave, one per position
\* spawnFood can return
SmallFoodBranch(g) ==
    IF g.smallFoodOnScreen /\ Closer(g.snake[1].position, g.smallFood, SQUARE_SIZE)
    THEN LET grown == Grow(g.snake, SMALL_GROWTH)
             eaten == g.smallFoodEaten + 1
         IN  IF eaten = BIG_FOOD_EVERY
             THEN {[g EXCEPT !.snake = grown,
                             !.score = g.score + SMALL_SCORE,
                             !.bigFood = p,
                             !.bigFoodOnScreen = TRUE,
                             !.smallFoodOnScreen = FALSE,
                             !.smallFoodEaten = 0] : p \in spawnFood(grown)}
             ELSE {[g EXCEPT !.snake = grown,
                             !.score = g.score + SMALL_SCORE,
                             !.smallFoodEaten = eaten,
                             !.smallFood = p,
                             !.smallFoodOnScreen = TRUE] : p \in spawnFood(grown)}
    ELSE {g}

\* the capacity of a std::vector that push_back has brought to n elements
\* one by one: it doubles whenever it is full (libstdc++)
RECURSIVE CapacityFrom(_, _)
CapacityFrom(c, n) == IF c >= n THEN c ELSE CapacityFrom(2 * c, n)

Capacity(n) == CapacityFrom(1, n)

\* the push_backs that take the vector from n to m elements reallocate it,
\* which leaves the reference "head" (bound before them) dangling
Reallocates(n, m) == m > Capacity(n)

\* the outcomes of "distance(head.position, food) < d" where p is the
\* position of snake[0]. Through a dangling "head" the read is undefined:
\* the freed block holds either the old bytes (the test sees p) or the
\* allocator's list pointers, which read as floats far off the window
\* (the test fails)
HeadCloser(p, food, d, dangling) ==
    IF dangling THEN {Closer(p, food, d), FALSE} ELSE {Closer(p, food, d)}

\* a big-food block that eats within half of SQUARE_SIZE only
BigFoodBranchNarrow(g, dangling) ==
    UNION {IF g.bigFoodOnScreen /\ close
           THEN LET grown == Grow(g.snake, BIG_GROWTH)
                IN  {[g EXCEPT !.snake = grown,
                               !.score = g.score + BIG_SCORE,
                               !.smallFood = p,
                               !.smallFoodOnScreen = TRUE,
                               !.bigFoodOnScreen = FALSE] : p \in spawnFood(grown)}
           ELSE {g} :
           close \in HeadCloser(g.snake[1].position, g.bigFood,
                                SQUARE_SIZE \div 2, dangling)}

\* the big-food block without "bigFoodOnScreen = false"
BigFoodBranchStaysOn(g, dangling) ==
    UNION {IF g.bigFoodOnScreen /\ close
           THEN LET grown == Grow(g.snake, BIG_GROWTH)
                IN  {[g EXCEPT !.snake = grown,
                               !.score = g.score + BIG_SCORE,
                               !.smallFood = p,
                               !.smallFoodOnScreen = TRUE] : p \in spawnFood(grown)}
           ELSE {g} :
           close \in HeadCloser(g.snake[1].position, g.bigFood,
                                SQUARE_SIZE * 2, dangling)}

\* the big-food block, which follows the small-food block in the same tick
\* and reads the head through the reference bound before it; dangling says
\* whether the small-food block reallocated the vector
BigFoodBranch(g, dangling) ==
    UNION {IF g.bigFoodOnScreen /\ close
           THEN LET grown == Grow(g.snake, BIG_GROWTH)
                IN  {[g EXCEPT !.snake = grown,
                               !.score = g.score + BIG_SCORE,
                               !.smallFood = p,
                               !.smallFoodOnScreen = TRUE,
                               !.bigFoodOnScreen = FALSE] : p \in spawnFood(grown)}
           ELSE {g} :
           close \in HeadCloser(g.snake[1].position, g.bigFood,
                                SQUARE_SIZE * 2, dangling)}

\* the game state as a record
Game ==
    [snake |-> snake, score |-> score, smallFoodEaten |-> smallFoodEaten,
     smallFoodOnScreen |-> smallFoodOnScreen, bigFoodOnScreen |-> bigFoodOnScreen,
     smallFood |-> smallFood, bigFood |-> bigFood, gameOver |-> gameOver]

\* the body of "if (deltaTime >= GAME_SPEED && !gameOver)": the game states
\* one tick can leave, with direction d committed
Tick(g, d) ==
    LET moved == Advance(g.snake, d)
        hit   == WallHit(moved[1].position) \/ SelfHit(moved)
        g1    == [g EXCEPT !.snake = moved, !.gameOver = g.gameOver \/ hit]
    IN  UNION {BigFoodBranch(g2, Reallocates(Len(moved), Len(g2.snake))) :
                  g2 \in SmallFoodBranch(g1)}

\* the condition of the tick
TickDue(deltaTime, speed) == deltaTime >= speed /\ ~gameOver

\* a loop without the break
LoopExitNever(over) == FALSE

\* "if (gameOver) ... break"
LoopExit(over) == over

---------------------------------------------------------------------------
(* The frame loop *)

Init ==
    /\ GAME_SPEED = game_speed_controller
    /\ score = 0
    /\ bigFoodOnScreen = FALSE
    /\ smallFoodOnScreen = TRUE
    /\ smallFoodEaten = 0
    /\ lastMoveTime = 0
    /\ gameOver = FALSE
    /\ snake = <<Square(<<windowWIDTH \div 2, windowHEIGHT \div 2>>, "RIGHT")>>
    /\ smallFood \in spawnFood(snake)
    /\ bigFood = <<0, 0>>
    /\ currentDirection = "RIGHT"
    /\ nextDirection = "RIGHT"
    /\ spacePressed = FALSE
    /\ ctrlPressed = FALSE
    /\ currentTime = 0
    /\ glfwTime = 0
    /\ pc = "loop"

\* one iteration of the rendering loop, with the key states glfwGetKey
\* reports and the time dt since the previous frame
Frame(keys, dt) ==
    /\ pc = "loop"
    /\ glfwTime + dt <= MaxTime * Millisecond
    /\ glfwTime' = glfwTime + dt
    /\ currentTime' = FloatRound(glfwTime')
    /\ LET s    == processInput(keys)
           next == DirectionInput(keys, currentDirection, nextDirection)
       IN  /\ GAME_SPEED' = s.GAME_SPEED
           /\ spacePressed' = s.spacePressed
           /\ ctrlPressed' = s.ctrlPressed
           /\ nextDirection' = next
           /\ IF TickDue(FloatRound(currentTime' - lastMoveTime), s.GAME_SPEED)
              THEN /\ currentDirection' = next
                   /\ lastMoveTime' = currentTime'
                   /\ \E g \in Tick(Game, next) :
                        /\ snake' = g.snake
                        /\ score' = g.score
                        /\ smallFoodEaten' = g.smallFoodEaten
                        /\ smallFoodOnScreen' = g.smallFoodOnScreen
                        /\ bigFoodOnScreen' = g.bigFoodOnScreen
                        /\ smallFood' = g.smallFood
                        /\ bigFood' = g.bigFood
                        /\ gameOver' = g.gameOver
              ELSE UNCHANGED <<currentDirection, lastMoveTime, snake, score,
                               smallFoodEaten, smallFoodOnScreen, bigFoodOnScreen,
                               smallFood, bigFood, gameOver>>
    /\ pc' = IF LoopExit(gameOver') THEN "exit" ELSE "loop"

\* the player closes the window: glfwWindowShouldClose ends the loop
WindowClose ==
    /\ pc = "loop"
    /\ pc' = "exit"
    /\ UNCHANGED <<GAME_SPEED, score, bigFoodOnScreen, smallFoodOnScreen,
                   smallFoodEaten, lastMoveTime, gameOver, snake, smallFood,
                   bigFood, currentDirection, nextDirection, spacePressed,
                   ctrlPressed, currentTime, glfwTime>>

\* the game played with the arrow keys
Next ==
    \/ \E keys \in KeyStates, dt \in FrameDurations : Frame(keys, dt)
    \/ WindowClose

Spec == Init /\ [][Next]_vars

\* the speed controls played, in frames following each other at once
NextInput ==
    \/ \E keys \in SpeedKeyStates : Frame(keys, 0)
    \/ WindowClose

SpecInput == Init /\ [][NextInput]_vars

\* the game played with one arrow key at a time, in frames that each last
\* just over one baseline tick interval, so that every frame runs a tick
NextSteady ==
    \/ \E keys \in SingleKeyStates : Frame(keys, SteadyFrame)
    \/ WindowClose

SpecSteady == Init /\ [][NextSteady]_vars

\* the coordinates c + k * MOVE_STRIDE the head can take along one axis
GridLine(c) == {c + k * MOVE_STRIDE : k \in -GridReach..GridReach}

\* the head after n moves in direction d
RECURSIVE MoveHeadTimes(_, _, _)
MoveHeadTimes(p, d, n) ==
    IF n = 0 THEN p ELSE MoveHeadTimes(MoveHead(p, d), d, n - 1)

\* the positions on the row and on the column through the start that pass
\* the wall check and lie within WallMargin moves of failing it
WallStarts ==
    {p \in (GridLine(windowWIDTH \div 2) \X {windowHEIGHT \div 2})
            \cup ({windowWIDTH \div 2} \X GridLine(windowHEIGHT \div 2)) :
        /\ ~WallHit(p)
        /\ \E d \in Direction : WallHit(MoveHeadTimes(p, d, WallMargin))}

\* the game at a tick that has brought a snake of one segment, which has
\* not eaten the first food yet, next to a wall: the head at p, come in
\* direction d from a position that passed the wall check; the clock is
\* counted from that tick
InitWall ==
    /\ GAME_SPEED = game_speed_controller
    /\ score = 0
    /\ bigFoodOnScreen = FALSE
    /\ smallFoodOnScreen = TRUE
    /\ smallFoodEaten = 0
    /\ lastMoveTime = 0
    /\ gameOver = FALSE
    /\ \E p \in WallStarts, d \in Direction :
         /\ \E e \in Direction :
              /\ ~WallHit(MoveHead(p, e))
              /\ MoveHead(MoveHead(p, e), d) = p
         /\ snake = <<Square(p, d)>>
         /\ currentDirection = d
         /\ nextDirection = d
    /\ smallFood \in
         spawnFood(<<Square(<<windowWIDTH \div 2, windowHEIGHT \div 2>>, "RIGHT")>>)
    /\ bigFood = <<0, 0>>
    /\ spacePressed = FALSE
    /\ ctrlPressed = FALSE
    /\ currentTime = 0
    /\ glfwTime = 0
    /\ pc = "loop"

\* the game played on from there, one arrow key at a time
SpecWall == InitWall /\ [][NextSteady]_vars

---------------------------------------------------------------------------
(* Properties *)

\* the state of the game a tick works on
gameVars == <<snake, score, smallFoodEaten, smallFoodOnScreen, bigFoodOnScreen,
              smallFood, bigFood, currentDirection>>

\* the reverse of direction d
Opposite(d) ==
    CASE d = "UP"    -> "DOWN"
      [] d = "DOWN"  -> "UP"
      [] d = "LEFT"  -> "RIGHT"
      [] d = "RIGHT" -> "LEFT"

\* position p is at distance >= SQUARE_SIZE from every segment of snk
Separated(snk, p) ==
    \A i \in DOMAIN snk :
        Dist2(snk[i].position, p) >= SQUARE_SIZE * SQUARE_SIZE

\* this step eats the small food: the counter moves at every such step
EatsSmall == smallFoodEaten' # smallFoodEaten

\* this step eats the big food: it was on screen and is gone, or it was
\* spawned by the third small food and is gone within the same step
EatsBig ==
    \/ bigFoodOnScreen /\ ~bigFoodOnScreen'
    \/ /\ smallFoodEaten = BIG_FOOD_EVERY - 1
       /\ EatsSmall
       /\ ~bigFoodOnScreen'

\* C1: at every frame boundary exactly one of smallFoodOnScreen and
\* bigFoodOnScreen is true.
C1_ExactlyOneFood == smallFoodOnScreen # bigFoodOnScreen

\* the big food is on screen after the third small food
C1_Witness == bigFoodOnScreen /\ ~smallFoodOnScreen /\ score = 3 * SMALL_SCORE

\* C2: one tick fires at most one growth branch: it adds 0, 25 or 75
\* segments and 0, 1 or 2 points.
C2_OneBranchPerTick ==
    [][/\ Len(snake') - Len(snake) \in {0, SMALL_GROWTH, BIG_GROWTH}
       /\ score' - score \in {0, SMALL_SCORE, BIG_SCORE}]_vars

\* C3: nextDirection is never the reverse of currentDirection, and the
\* direction a tick commits is never the reverse of the one before.
C3_NoReverse ==
    /\ [](nextDirection # Opposite(currentDirection))
    /\ [][currentDirection' # Opposite(currentDirection)]_vars

\* the snake has come round to the reverse of its first direction, and a
\* turn is pending
C3_Witness == currentDirection = "LEFT" /\ nextDirection = "DOWN"

\* C4: once gameOver is true it stays true, the loop is left, and no later
\* frame changes the snake, the score, the food or the counters.
C4_GameOverTerminal ==
    [][gameOver => (gameOver' /\ pc' = "exit" /\ UNCHANGED gameVars)]_vars

\* the game has ended
C4_Witness == gameOver /\ pc = "exit"

\* C5: a position spawnFood commits is at distance >= SQUARE_SIZE from
\* every segment of the snake of that moment, those appended in the same
\* tick included (growth only copies the tail, so the segments after the
\* tick lie where the segments of the call lay).
C5_SpawnSeparated ==
    /\ Separated(snake, smallFood)
    /\ [][/\ smallFood' # smallFood => Separated(snake', smallFood')
          /\ bigFood' # bigFood => Separated(snake', bigFood')]_vars

\* a small food was spawned in the tick that appended 25 segments
C5_Witness ==
    /\ Len(snake) = 1 + 2 * SMALL_GROWTH
    /\ smallFoodOnScreen
    /\ Separated(snake, smallFood)

\* C7: the big food becomes active exactly on the third small food: that
\* step leaves the small food off, the big food on and the counter 0; the
\* first and second leave the small food on; the counter stays in 0..2.
C7_BigFoodOnThird ==
    /\ [](smallFoodEaten \in 0..(BIG_FOOD_EVERY - 1))
    /\ [][/\ (EatsSmall /\ smallFoodEaten = BIG_FOOD_EVERY - 1)
              => (bigFoodOnScreen' /\ ~smallFoodOnScreen' /\ smallFoodEaten' = 0)
          /\ (EatsSmall /\ smallFoodEaten < BIG_FOOD_EVERY - 1)
              => (smallFoodOnScreen' /\ ~bigFoodOnScreen'
                  /\ smallFoodEaten' = smallFoodEaten + 1)
          /\ (~bigFoodOnScreen /\ bigFoodOnScreen')
              => (EatsSmall /\ smallFoodEaten = BIG_FOOD_EVERY - 1)]_vars

\* C8: a step changes the segment count by 25 per small food and 75 per big
\* food eaten in it and the score by 1 and 2, so that at every state
\* length = 1 + 25*s + 75*b and score = s + 2*b for some s, b >= 0.
C8_GrowthAndScore ==
    /\ [](\E s \in 0..score, b \in 0..score :
            /\ score = SMALL_SCORE * s + BIG_SCORE * b
            /\ Len(snake) = 1 + SMALL_GROWTH * s + BIG_GROWTH * b)
    /\ [][LET s == IF EatsSmall THEN 1 ELSE 0
              b == IF EatsBig THEN 1 ELSE 0
          IN  /\ Len(snake') = Len(snake) + SMALL_GROWTH * s + BIG_GROWTH * b
              /\ score' = score + SMALL_SCORE * s + BIG_SCORE * b]_vars

\* three small foods and one big food have been eaten
C8_Witness ==
    /\ score = 3 * SMALL_SCORE + BIG_SCORE
    /\ Len(snake) = 1 + 3 * SMALL_GROWTH + BIG_GROWTH

\* C9: a SPACE press from the baseline, LEFT CONTROL not held, leaves the
\* tick interval strictly larger than the baseline.
C9_SpaceSlowsDown ==
    [][(/\ ~spacePressed /\ ~ctrlPressed
        /\ GAME_SPEED = game_speed_controller
        /\ spacePressed' /\ ~ctrlPressed')
       => GAME_SPEED' > game_speed_controller]_vars

\* C10: a LEFT CONTROL press leaves the tick interval strictly smaller
\* than the baseline, and smaller than the interval a SPACE press alone
\* reaches.
C10_CtrlSpeedsUp ==
    [][(~ctrlPressed /\ ctrlPressed')
       => (/\ GAME_SPEED' < game_speed_controller
           /\ GAME_SPEED' < FloatSub(game_speed_controller))]_vars

\* C11: with SPACE and LEFT CONTROL both released after a processInput call
\* (the flags then equal the key states), the tick interval is the baseline;
\* and a call that sees one control released while the other was and stays
\* held leaves the tick interval as it was.
C11_ReleaseRestores ==
    /\ []((~spacePressed /\ ~ctrlPressed) => GAME_SPEED = game_speed_controller)
    /\ [][/\ (spacePressed /\ ~spacePressed' /\ ctrlPressed /\ ctrlPressed')
              => GAME_SPEED' = GAME_SPEED
          /\ (ctrlPressed /\ ~ctrlPressed' /\ spacePressed /\ spacePressed')
              => GAME_SPEED' = GAME_SPEED]_vars

\* SPACE was pressed and released while LEFT CONTROL stayed held: the
\* interval is neither the baseline nor the one LEFT CONTROL sets
C11_Witness ==
    /\ ~spacePressed /\ ctrlPressed
    /\ GAME_SPEED = FloatSub(CTRL_SPEED)

\* C14: whatever SPACE and LEFT CONTROL events came, the tick interval is
\* not below the floor the SPACE block tests (0.003 s lies between
\* SPACE_FLOOR and the next unit), and it is strictly positive.
C14_SpeedFloor == GAME_SPEED > SPACE_FLOOR /\ GAME_SPEED > 0

\* the part of C14 that the code keeps: the tick interval stays positive
C14_SpeedPositive == GAME_SPEED > 0

\* position p lies on the grid of MOVE_STRIDE steps around the start
OnGrid(p) ==
    /\ (p[1] - windowWIDTH \div 2) % MOVE_STRIDE = 0
    /\ (p[2] - windowHEIGHT \div 2) % MOVE_STRIDE = 0

\* the head of snk lies where another of its segments lies
HeadOnBody(snk) == \E i \in 2..Len(snk) : snk[i].position = snk[1].position

\* a frame that ran a tick
Ticked == lastMoveTime' # lastMoveTime

\* C13: every segment lies on the MOVE_STRIDE grid; after the advance of a
\* tick (the head moved, every other segment where its predecessor lay, the
\* growth of that tick not yet added) the head is closer than MOVE_STRIDE
\* to another segment iff it lies where that segment lies, and the tick sets
\* gameOver iff that is so or the head hit a wall. So neither the segment
\* right behind the head nor the tail copies of a growth, the growth from
\* one segment included, end the game.
C13_SelfCollisionExact ==
    /\ [](\A i \in DOMAIN snake : OnGrid(snake[i].position))
    /\ [][Ticked =>
            LET head  == MoveHead(snake[1].position, currentDirection')
                body  == {snake[i].position : i \in 1..(Len(snake) - 1)}
                close == \E q \in body :
                            Dist2(head, q) < MOVE_STRIDE * MOVE_STRIDE
            IN  /\ close <=> head \in body
                /\ gameOver' <=> (WallHit(head) \/ head \in body)
                /\ head # snake[1].position]_vars

\* the head has turned back onto the segments its first growth stacked
C13_Witness ==
    /\ gameOver /\ ~WallHit(snake[1].position)
    /\ HeadOnBody(snake)
    /\ snake[Len(snake)].position = snake[1].position

\* a one-segment snake has grown and moved on: the tail copies lie one
\* MOVE_STRIDE behind the head and the game goes on
C13_GrowthWitness ==
    /\ ~gameOver /\ Len(snake) = 1 + SMALL_GROWTH
    /\ \A i \in 2..Len(snake) :
          Dist2(snake[1].position, snake[i].position) = MOVE_STRIDE * MOVE_STRIDE

\* C15: a tick that sets gameOver eats nothing: the score, the number of
\* segments, smallFoodEaten, the food flags and the food positions are
\* after it what they were before it.
C15_FatalTickEatsNothing ==
    [][(Ticked /\ gameOver') =>
        /\ score' = score
        /\ Len(snake') = Len(snake)
        /\ UNCHANGED <<smallFoodEaten, smallFoodOnScreen, bigFoodOnScreen,
                       smallFood, bigFood>>]_vars

\* position p lies strictly inside the playable rectangle
StrictlyInside(p) ==
    /\ 0 + WALL_THICKNESS < p[1]
    /\ p[1] < windowWIDTH - WALL_THICKNESS
    /\ 0 + WALL_THICKNESS - BOTTOM_SHIFT < p[2]
    /\ p[2] < windowHEIGHT - WALL_THICKNESS

\* C12: a tick of a snake that cannot hit itself leaves the game running
\* iff the advanced head lies strictly inside the playable rectangle; a head
\* on one of the four boundary lines ends the game.
C12_WallCheck ==
    [][(Ticked /\ Len(snake') = 1) =>
        (~gameOver' <=> StrictlyInside(snake'[1].position))]_vars

\* what the code does at the walls: the game goes on iff the head lies in
\* the rectangle closed on the left and bottom lines and open on the right
\* and top lines
C12_HalfOpenRectangle ==
    [][(Ticked /\ Len(snake') = 1) =>
        (~gameOver' <=>
            /\ 0 + WALL_THICKNESS <= snake'[1].position[1]
            /\ snake'[1].position[1] < windowWIDTH - WALL_THICKNESS
            /\ 0 + WALL_THICKNESS - BOTTOM_SHIFT <= snake'[1].position[2]
            /\ snake'[1].position[2] < windowHEIGHT - WALL_THICKNESS)]_vars

\* the head lies on the left boundary line and the game goes on
C12_OnLeftLine ==
    /\ ~gameOver /\ lastMoveTime > 0
    /\ snake[1].position[1] = 0 + WALL_THICKNESS

\* no position of the grid lies on the bottom boundary line
C12_BottomLineOffGrid ==
    \A i \in DOMAIN snake :
        snake[i].position[2] # 0 + WALL_THICKNESS - BOTTOM_SHIFT

\* C16: in the initial state and after every frame, the food that is on
\* screen, small or big, lies at distance >= SQUARE_SIZE from every segment
\* of the snake, the head included.
C16_FoodNotUnderSnake ==
    /\ smallFoodOnScreen => Separated(snake, smallFood)
    /\ bigFoodOnScreen => Separated(snake, bigFood)

\* the snake has grown once and advanced twice since the small food was
\* spawned, and its head is within one more step of eating it
C16_Witness ==
    /\ smallFoodOnScreen /\ score = SMALL_SCORE
    /\ Len(snake) = 1 + SMALL_GROWTH
    /\ snake[1].position # snake[2].position
    /\ snake[2].position # snake[3].position
    /\ Closer(snake[1].position, smallFood, SQUARE_SIZE + MOVE_STRIDE)

\* the big food is on screen and the head, moved on since the third small
\* food, is within one more step of eating it
C16_BigWitness ==
    /\ bigFoodOnScreen /\ currentDirection # "RIGHT"
    /\ ~Closer(snake[1].position, bigFood, 2 * SQUARE_SIZE)
    /\ Closer(snake[1].position, bigFood, 2 * SQUARE_SIZE + MOVE_STRIDE)

====
